---------------------------- MODULE Spec2Model ----------------------------
(***************************************************************************)
(* Sequential_Search.ipynb: the exhaustive search for the r x n "bad       *)
(* science" matrix of maximal beta.                                        *)
(*                                                                         *)
(* The notebook is a straight-line script.  Spec models its cells in       *)
(* execution order, one action per statement group:                        *)
(*   candidate_rows(n)   SumSubsets, NormalizeRows, DropNanRows,           *)
(*                       UniqueRows, FixSigns                              *)
(*   cell 3              SliceBinaryVectors                                *)
(*   cell 4              SetupSearch, Fetch (the for statement takes the   *)
(*                       next combination), Evaluate (the loop body),      *)
(*                       Exhaust (the generator is empty), Report          *)
(*                                                                         *)
(* SpecSetup models the script up to the for loop, with candidate_rows(n)  *)
(* as one step (CandidateRowsCall), for more (n, r) than the loop can be   *)
(* run for.                                                                *)
(*                                                                         *)
(* Tensors are sequences of rows, a row is a tuple of numbers.  float32    *)
(* values are modelled in fixed point: a value x is the integer            *)
(* floor(|x| * SCALE) with the sign of x.  Sums of +-1 vectors are exact   *)
(* integers in float32 and in the model alike.                             *)
(***************************************************************************)
EXTENDS Integers, Sequences, FiniteSets, TLC

VARIABLES
    pc,              \* position of the script
    n,               \* line 122
    r,               \* line 123
    cand,            \* the tensor candidate_rows is working on (its locals, in turn)
    rows,            \* line 126: the candidate set R, <<>> until assigned
    binary_vectors,  \* line 129
    indices,         \* state of itertools.combinations inside combinations_generator
    beta_max,        \* line 208
    best_A,          \* line 210, None until a candidate wins
    total,           \* line 212
    count            \* line 216: tqdm's count of the combinations taken

vars == <<pc, n, r, cand, rows, binary_vectors, indices, beta_max, best_A,
          total, count>>

---------------------------------------------------------------------------
(* Bounds of the model *)

\* fixed-point resolution standing for float32
SCALE == 4096

\* r ranges over -MaxNegR .. MaxR
MaxNegR == 1

MaxR == 3

\* n of the full runs (the loop over C(|R|, r) combinations is explored)
NValues == 1 .. 3

FullParams == NValues \X ((0 - MaxNegR) .. MaxR)

\* r of the runs explored up to the start of the loop only
MaxSetupR == 8

\* (n, r) of those runs; the notebook's n = 4, r = 4 is one of them
SetupParams == (NValues \X ((0 - MaxNegR) .. MaxSetupR)) \cup {<<4, 4>>}

---------------------------------------------------------------------------
(* Values *)

\* Python's None, as the value of best_A (a matrix has at least one row)
None == <<>>

\* combinations_generator before its first next(): no index tuple yet
NotStarted == <<0 - 1>>

\* float32 not-a-number: 0/0.  An integer outside the range of every finite
\* value of the model.
NaN == 0 - (SCALE * SCALE)

IsNan(x) == x = NaN

Abs(x) == IF x < 0 THEN 0 - x ELSE x

Sign(x) == IF x > 0 THEN 1 ELSE IF x < 0 THEN 0 - 1 ELSE 0

Pow2(k) == 2 ^ k

RECURSIVE ISqrtIter(_, _, _)
\* largest x in lo..hi with x*x <= q  (lo*lo <= q < (hi+1)^2)
ISqrtIter(q, lo, hi) ==
    IF lo = hi THEN lo
    ELSE LET mid == (lo + hi + 1) \div 2
         IN  IF mid * mid <= q THEN ISqrtIter(q, mid, hi)
             ELSE ISqrtIter(q, lo, mid - 1)

\* floor(sqrt(q)) for 0 <= q <= SCALE * SCALE
ISqrt(q) == ISqrtIter(q, 0, SCALE)

RECURSIVE SumTo(_, _)
\* f[1] + ... + f[k]
SumTo(f, k) == IF k = 0 THEN 0 ELSE f[k] + SumTo(f, k - 1)

RECURSIVE MaxTo(_, _)
\* max(f[1], ..., f[k]), k >= 1
MaxTo(f, k) ==
    IF k = 1 THEN f[1]
    ELSE LET m == MaxTo(f, k - 1) IN IF f[k] > m THEN f[k] ELSE m

\* lexicographic order of two rows of equal length (torch.unique sorts by it)
LexLess(a, b) ==
    \E k \in 1 .. Len(a) :
        /\ a[k] < b[k]
        /\ \A j \in 1 .. (k - 1) : a[j] = b[j]

Range(s) == {s[i] : i \in 1 .. Len(s)}

---------------------------------------------------------------------------
(* Cell 2: helper functions *)

\* vectors(k, binary): list(product([lo, hi], repeat=k)); the returned
\* tensor is its transpose, so element i of this sequence is column i.
Vectors(k, binary) ==
    LET lo == IF binary THEN 0 ELSE 0 - 1
    IN  [i \in 1 .. Pow2(k) |->
            [j \in 1 .. k |->
                IF ((i - 1) \div Pow2(k - j)) % 2 = 1 THEN 1 ELSE lo]]

\* row of  binary_choices @ vectors(n).T  for one selector
SelectorSum(sel, V, k) ==
    [c \in 1 .. k |-> SumTo([j \in 1 .. Len(V) |-> sel[j] * V[j][c]], Len(V))]

\* lines 78-81
SubsetSums(k) ==
    LET binary_choices == Vectors(Pow2(k), TRUE)
        V == Vectors(k, FALSE)
    IN  [i \in 1 .. Len(binary_choices) |-> SelectorSum(binary_choices[i], V, k)]

\* torch.norm(rows, dim=1): carried as its exact square
NormSq(row) == SumTo([c \in 1 .. Len(row) |-> row[c] * row[c]], Len(row))

\* one element of rows / row_norms: a / sqrt(s); 0/0 is nan
Quotient(a, s) ==
    IF s = 0 THEN NaN
    ELSE Sign(a) * ISqrt((a * a * SCALE * SCALE) \div s)

\* lines 84-87
NormalizedWithNans(t) ==
    [i \in 1 .. Len(t) |->
        LET s == NormSq(t[i])
        IN  [c \in 1 .. Len(t[i]) |-> Quotient(t[i][c], s)]]

AllNan(row) == \A c \in 1 .. Len(row) : IsNan(row[c])

\* mutant of KeepRow: the nan rows are not sliced away
KeepEveryRow(row) == TRUE

KeepRow(row) == ~AllNan(row)

\* line 91
WithoutNanRows(t) == SelectSeq(t, KeepRow)

\* torch.unique(t, dim=0): the distinct rows in ascending lexicographic order
Unique(t) ==
    LET S == Range(t)
        ranked == {<<Cardinality({y \in S : LexLess(y, x)}) + 1, x>> : x \in S}
    IN  [i \in 1 .. Cardinality(S) |-> (CHOOSE p \in ranked : p[1] = i)[2]]

\* lines 67-69: index of the first non-zero element, its sign, row * sign
FirstNonZero(row) ==
    CHOOSE k \in 1 .. Len(row) :
        /\ row[k] # 0
        /\ \A j \in 1 .. (k - 1) : row[j] = 0

\* mutant of SignedRow: the row is not multiplied by its sign
SignedRowUnfixed(row) == row

SignedRow(row) ==
    LET sign == Sign(row[FirstNonZero(row)])
    IN  [c \in 1 .. Len(row) |-> row[c] * sign]

\* fix_row_signs, lines 62-73
FixRowSigns(t) == Unique([i \in 1 .. Len(t) |-> SignedRow(t[i])])

\* candidate_rows, lines 76-99
CandidateRows(k) ==
    FixRowSigns(Unique(WithoutNanRows(NormalizedWithNans(SubsetSums(k)))))

---------------------------------------------------------------------------
(* Cell 3 *)

\* mutant of FirstColumns: the slice starts one column late
FirstColumnsShifted(V, k) == SubSeq(V, 2, k + 1)

\* vectors(n)[:, :2**(n-1)]
FirstColumns(V, k) == SubSeq(V, 1, k)

BinaryVectors(k) == FirstColumns(Vectors(k, FALSE), Pow2(k - 1))

Dot(a, c) == SumTo([j \in 1 .. Len(a) |-> a[j] * c[j]], Len(a))

\* mutant of ColumnMax: torch.abs is left out
ColumnMaxNoAbs(A, c) == MaxTo([i \in 1 .. Len(A) |-> Dot(A[i], c)], Len(A))

\* torch.max(torch.abs(B), dim=0).values for one column c of binary_vectors
ColumnMax(A, c) == MaxTo([i \in 1 .. Len(A) |-> Abs(Dot(A[i], c))], Len(A))

\* torch.mean of a vector of Len(cols) values
Mean(f, k) == SumTo(f, k) \div k

\* beta(A, binary_vectors), lines 132-134 and line 220
Beta(A, cols) == Mean([k \in 1 .. Len(cols) |-> ColumnMax(A, cols[k])], Len(cols))

\* rows[torch.tensor(combination)]: the combination holds 0-based indices
RowsAt(R, combination) ==
    [i \in 1 .. Len(combination) |-> R[combination[i] + 1]]

---------------------------------------------------------------------------
(* Cell 4 *)

(* total is an int64 in the notebook and C(680, 4) exceeds 32 bits, so the  *)
(* model keeps it as the decimal digits line 214 prints, least significant *)
(* digit first.                                                            *)
RECURSIVE Digits(_)
Digits(x) == IF x < 10 THEN <<x>> ELSE <<x % 10>> \o Digits(x \div 10)

RECURSIVE MulDigits(_, _, _)
\* d * k plus carry, k a small natural
MulDigits(d, k, carry) ==
    IF d = <<>> THEN (IF carry = 0 THEN <<>> ELSE Digits(carry))
    ELSE LET v == Head(d) * k + carry
         IN  <<v % 10>> \o MulDigits(Tail(d), k, v \div 10)

RECURSIVE DivDigits(_, _, _)
\* the quotient of d by k, long division from the most significant digit;
\* rem is the remainder carried down from the digits above
DivDigits(d, k, rem) ==
    IF d = <<>> THEN <<>>
    ELSE LET v == rem * 10 + d[Len(d)]
         IN  DivDigits(SubSeq(d, 1, Len(d) - 1), k, v % k) \o <<v \div k>>

RECURSIVE Canonical(_)
\* without leading zeros
Canonical(d) ==
    IF Len(d) > 1 /\ d[Len(d)] = 0 THEN Canonical(SubSeq(d, 1, Len(d) - 1))
    ELSE d

RECURSIVE BinomProduct(_, _, _)
\* C(m - k + i, i) from C(m - k + i - 1, i - 1), for i = 1 .. k
BinomProduct(m, k, i) ==
    IF i = 0 THEN <<1>>
    ELSE Canonical(DivDigits(MulDigits(BinomProduct(m, k, i - 1), m - k + i, 0), i, 0))

\* mutant of Binom: the arguments are passed in the other order
BinomSwapped(m, k) ==
    IF m < 0 \/ m > k THEN <<0>>
    ELSE BinomProduct(k, m, m)

\* special.binom(m, k).astype(int) for integers m >= 0
Binom(m, k) ==
    IF k < 0 \/ k > m THEN <<0>>
    ELSE BinomProduct(m, k, k)

\* itertools.combinations(range(m), k): the first tuple
FirstCombination(k) == [i \in 1 .. k |-> i - 1]

\* the position the generator advances: the rightmost i with
\* indices[i] != i + m - k (0-based), 0 when there is none
Pivot(ind, m) ==
    LET k == Len(ind)
        movable == {i \in 1 .. k : ind[i] # (i - 1) + m - k}
    IN  IF movable = {} THEN 0
        ELSE CHOOSE i \in movable : \A j \in movable : j <= i

\* mutant of NextCombination: the indices after the pivot are not reset
NextCombinationNoReset(ind, m) ==
    LET p == Pivot(ind, m)
    IN  [i \in 1 .. Len(ind) |-> IF i = p THEN ind[i] + 1 ELSE ind[i]]

NextCombination(ind, m) ==
    LET p == Pivot(ind, m)
    IN  [i \in 1 .. Len(ind) |->
            IF i < p THEN ind[i] ELSE ind[p] + 1 + (i - p)]

\* whether next(combinations_generator) yields: nothing has been yielded
\* yet and there is a first tuple, or the last tuple can advance
HasNext(ind, m, k) ==
    IF ind = NotStarted THEN k <= m
    ELSE Pivot(ind, m) # 0

Advance(ind, m, k) ==
    IF ind = NotStarted THEN FirstCombination(k) ELSE NextCombination(ind, m)

\* mutant of Improves: the comparison is reversed
ImprovesReversed(candidate, current) == candidate < current

\* mutant of Improves: a tie replaces the matrix kept
ImprovesOrTies(candidate, current) == candidate >= current

\* line 222
Improves(candidate, current) == candidate > current

---------------------------------------------------------------------------
(* The script *)

InitWith(P) ==
    /\ \E p \in P : n = p[1] /\ r = p[2]
    /\ pc = "start"
    /\ cand = <<>>
    /\ rows = <<>>
    /\ binary_vectors = <<>>
    /\ indices = NotStarted
    /\ beta_max = 0
    /\ best_A = None
    /\ total = <<0>>
    /\ count = 0

Init == InitWith(FullParams)

InitSetup == InitWith(SetupParams)

\* lines 78-81
SumSubsets ==
    /\ pc = "start"
    /\ cand' = SubsetSums(n)
    /\ pc' = "summed"
    /\ UNCHANGED <<n, r, rows, binary_vectors, indices, beta_max, best_A,
                   total, count>>

\* lines 84-87
NormalizeRows ==
    /\ pc = "summed"
    /\ cand' = NormalizedWithNans(cand)
    /\ pc' = "normalized"
    /\ UNCHANGED <<n, r, rows, binary_vectors, indices, beta_max, best_A,
                   total, count>>

\* line 91
DropNanRows ==
    /\ pc = "normalized"
    /\ cand' = WithoutNanRows(cand)
    /\ pc' = "filtered"
    /\ UNCHANGED <<n, r, rows, binary_vectors, indices, beta_max, best_A,
                   total, count>>

\* line 94
UniqueRows ==
    /\ pc = "filtered"
    /\ cand' = Unique(cand)
    /\ pc' = "unique"
    /\ UNCHANGED <<n, r, rows, binary_vectors, indices, beta_max, best_A,
                   total, count>>

\* lines 97-99 and 126
FixSigns ==
    /\ pc = "unique"
    /\ rows' = FixRowSigns(cand)
    /\ cand' = <<>>
    /\ pc' = "rows"
    /\ UNCHANGED <<n, r, binary_vectors, indices, beta_max, best_A, total,
                   count>>

\* line 126, candidate_rows(n) as one step
CandidateRowsCall ==
    /\ pc = "start"
    /\ rows' = CandidateRows(n)
    /\ pc' = "rows"
    /\ UNCHANGED <<n, r, cand, binary_vectors, indices, beta_max, best_A,
                   total, count>>

\* line 129
SliceBinaryVectors ==
    /\ pc = "rows"
    /\ binary_vectors' = BinaryVectors(n)
    /\ pc' = "cell4"
    /\ UNCHANGED <<n, r, cand, rows, indices, beta_max, best_A, total,
                   count>>

\* lines 198-214
SetupSearch ==
    /\ pc = "cell4"
    /\ indices' = NotStarted
    /\ beta_max' = 0
    /\ best_A' = None
    /\ total' = Binom(Len(rows), r)
    /\ pc' = "loop"
    /\ UNCHANGED <<n, r, cand, rows, binary_vectors, count>>

\* line 216: the for statement takes the next combination from the
\* generator.  combinations() raises ValueError for r < 0 at this first
\* next().
Fetch ==
    /\ pc = "loop"
    /\ IF r < 0
       THEN /\ pc' = "error"
            /\ UNCHANGED <<indices, count>>
       ELSE /\ HasNext(indices, Len(rows), r)
            /\ indices' = Advance(indices, Len(rows), r)
            /\ count' = count + 1
            /\ pc' = "body"
    /\ UNCHANGED <<n, r, cand, rows, binary_vectors, beta_max, best_A, total>>

\* lines 218-223: the body of the loop for the combination in hand.  For
\* r = 0 the combination is the empty tuple and rows[torch.tensor(())]
\* raises IndexError (a float tensor is no index).
Evaluate ==
    /\ pc = "body"
    /\ IF r = 0
       THEN /\ pc' = "error"
            /\ UNCHANGED <<beta_max, best_A>>
       ELSE LET A == RowsAt(rows, indices)
                beta_candidate == Beta(A, binary_vectors)
            IN  /\ pc' = "loop"
                /\ IF Improves(beta_candidate, beta_max)
                   THEN /\ beta_max' = beta_candidate
                        /\ best_A' = A
                   ELSE UNCHANGED <<beta_max, best_A>>
    /\ UNCHANGED <<n, r, cand, rows, binary_vectors, indices, total, count>>

\* line 216: the generator is exhausted, the loop ends
Exhaust ==
    /\ pc = "loop"
    /\ r >= 0
    /\ ~HasNext(indices, Len(rows), r)
    /\ pc' = "report"
    /\ UNCHANGED <<n, r, cand, rows, binary_vectors, indices, beta_max,
                   best_A, total, count>>

\* lines 225-230: best_A.numpy() raises AttributeError when best_A is None
Report ==
    /\ pc = "report"
    /\ pc' = IF best_A = None THEN "error" ELSE "done"
    /\ UNCHANGED <<n, r, cand, rows, binary_vectors, indices, beta_max,
                   best_A, total, count>>

\* candidate_rows statement by statement
NextCandidateRows ==
    \/ SumSubsets
    \/ NormalizeRows
    \/ DropNanRows
    \/ UniqueRows
    \/ FixSigns

Next ==
    \/ NextCandidateRows
    \/ SliceBinaryVectors
    \/ SetupSearch
    \/ Fetch
    \/ Evaluate
    \/ Exhaust
    \/ Report

\* the script up to the for loop, candidate_rows as one step
NextSetup ==
    \/ CandidateRowsCall
    \/ SliceBinaryVectors
    \/ SetupSearch

Spec == Init /\ [][Next]_vars

\* the for loop, once entered, keeps running: the next combination is
\* taken while the generator yields, its body runs, and the loop ends when
\* the generator is exhausted
FairSpec == Spec /\ WF_vars(Fetch) /\ WF_vars(Evaluate) /\ WF_vars(Exhaust)

SpecSetup == InitSetup /\ [][NextSetup]_vars

---------------------------------------------------------------------------
(* Properties *)

\* the strictly increasing k-tuples of indices 0 .. m-1
AllCombinations(m, k) ==
    {c \in [1 .. k -> 0 .. (m - 1)] : \A i \in 1 .. (k - 1) : c[i] < c[i + 1]}

BetaOf(combination) == Beta(RowsAt(rows, combination), binary_vectors)

\* the matrix of the combination the loop body is about to evaluate
CurrentA == RowsAt(rows, indices)

ValidR == 1 <= r /\ r <= Len(rows)

LoopOver == pc \in {"report", "done"}

InLoopBody == pc = "body" /\ r >= 1

\* a strictly increasing tuple of k indices into 0 .. m-1
IsCombination(c, m, k) ==
    /\ Len(c) = k
    /\ \A i \in 1 .. k : 0 <= c[i] /\ c[i] < m
    /\ \A i \in 1 .. (k - 1) : c[i] < c[i + 1]

\* the for statement takes a combination: one more is counted, it is a
\* strictly increasing r-tuple of indices into R, and it comes after the
\* one before it in lexicographic order (so none is taken twice)
C1_Step ==
    (pc = "loop" /\ pc' = "body") =>
        /\ count' = count + 1
        /\ IsCombination(indices', Len(rows), r)
        /\ indices # NotStarted => LexLess(indices, indices')

\* C1: for 1 <= r <= |R| the for loop ends; the combinations it takes are
\* distinct strictly increasing r-tuples of indices into R, and when it has
\* ended their number is the number of all such tuples, C(|R|, r), which is
\* the total printed: every tuple was examined, each once.
C1_ExhaustiveSearch ==
    /\ (pc = "loop" /\ ValidR) ~> (pc = "report")
    /\ [][C1_Step]_vars
    /\ [](LoopOver /\ ValidR =>
            /\ count = Cardinality(AllCombinations(Len(rows), r))
            /\ Digits(count) = total)

C1_Witness ==
    /\ pc = "report"
    /\ n = 3
    /\ r = 3
    /\ Len(rows) = 25
    /\ count = 2300
    /\ indices = <<22, 23, 24>>
    /\ total = <<0, 0, 3, 2>>

\* C2: when the loop over R with 1 <= r <= |R| has ended, beta_max is the
\* largest beta of an r-combination of R and best_A is the matrix of an
\* r-combination (rows of R in increasing index order) of that beta.
C2_MaximumReported ==
    LoopOver /\ ValidR =>
        LET all == AllCombinations(Len(rows), r)
        IN  /\ \A c \in all : BetaOf(c) <= beta_max
            /\ \E c \in all : best_A = RowsAt(rows, c) /\ BetaOf(c) = beta_max

C2_Witness ==
    /\ pc = "done"
    /\ n = 3
    /\ r = 2
    /\ best_A = RowsAt(rows, <<1, 2>>)
    /\ beta_max = BetaOf(<<1, 2>>)
    /\ beta_max > BetaOf(<<0, 1>>)
    /\ beta_max > BetaOf(<<23, 24>>)

\* the combinations of maximal beta
Maximizers ==
    {c \in AllCombinations(Len(rows), r) : BetaOf(c) = beta_max}

\* the structure of one step: beta_max and best_A change only in a loop
\* body whose candidate is strictly greater than beta_max
C3_Step ==
    \/ UNCHANGED <<beta_max, best_A>>
    \/ /\ pc = "body"
       /\ LET A == CurrentA
              beta_candidate == Beta(A, binary_vectors)
          IN  /\ beta_candidate > beta_max
              /\ beta_max' = beta_candidate
              /\ best_A' = A

\* C3: the search state changes only on a strictly greater candidate,
\* beta_max never decreases, and the matrix kept at the end is that of the
\* lexicographically first combination of maximal beta.
C3_FirstMaximizerKept ==
    /\ [][C3_Step /\ beta_max' >= beta_max]_vars
    /\ [](LoopOver /\ ValidR =>
            \E c \in Maximizers :
                /\ best_A = RowsAt(rows, c)
                /\ \A d \in Maximizers : d = c \/ LexLess(c, d))

\* three combinations tie at the maximum; the first of them is kept
C3_Witness ==
    /\ pc = "done"
    /\ n = 3
    /\ r = 2
    /\ Cardinality(Maximizers) = 3
    /\ <<1, 2>> \in Maximizers
    /\ best_A = RowsAt(rows, <<1, 2>>)

\* C4: if r > |R| the search examines nothing and completes normally with
\* the initial state, raising no error.
C4_EmptySearchCompletes ==
    (pc \in {"report", "done", "error"} /\ r > Len(rows)) =>
        /\ pc # "error"
        /\ count = 0
        /\ beta_max = 0
        /\ best_A = None

\* C5: for r < 1 (or n < 1) no candidate row is generated, no combination
\* is examined and no result is produced.
C5_InvalidRejectedFirst ==
    (n < 1 \/ r < 1) =>
        /\ pc \in {"start", "error"}
        /\ cand = <<>>
        /\ rows = <<>>
        /\ count = 0

Negated(row) == [c \in 1 .. Len(row) |-> 0 - row[c]]

IsZeroRow(row) == \A c \in 1 .. Len(row) : row[c] = 0

RowsAssigned ==
    pc \in {"rows", "cell4", "loop", "body", "report", "done", "error"}

\* C6: R holds no nan row and no zero row, the first non-zero coordinate
\* of every row is positive, and no two rows are equal or negatives of each
\* other; the raw selector sums it is built from hold zero sums, duplicates
\* and a vector together with its negation.
C6_CanonicalRows ==
    /\ pc = "rows" =>
          LET raw == SubsetSums(n)
          IN  /\ \E i \in 1 .. Len(raw) : IsZeroRow(raw[i])
              /\ \E i \in 1 .. Len(raw) :
                    /\ ~IsZeroRow(raw[i])
                    /\ \E j \in 1 .. Len(raw) : raw[j] = Negated(raw[i])
              /\ \E i \in 1 .. Len(raw) : \E j \in (i + 1) .. Len(raw) :
                    raw[i] = raw[j]
    /\ RowsAssigned =>
          /\ Len(rows) >= 1
          /\ \A i \in 1 .. Len(rows) :
                /\ \A c \in 1 .. n : ~IsNan(rows[i][c])
                /\ ~IsZeroRow(rows[i])
                /\ rows[i][FirstNonZero(rows[i])] > 0
          /\ \A i \in 1 .. Len(rows) : \A j \in (i + 1) .. Len(rows) :
                /\ rows[i] # rows[j]
                /\ rows[i] # Negated(rows[j])

\* R built for n = 3 from raw sums that hold the zero vector, (1,1,1) with
\* its multiple (2,2,2) and its negation: one row of R stands for the three
C6_Witness ==
    /\ pc = "rows"
    /\ n = 3
    /\ Len(rows) = 25
    /\ {<<0, 0, 0>>, <<1, 1, 1>>, <<2, 2, 2>>, <<0 - 1, 0 - 1, 0 - 1>>}
          \subseteq Range(SubsetSums(3))
    /\ Cardinality({i \in 1 .. Len(rows) :
            rows[i] = [c \in 1 .. 3 |-> Quotient(1, 3)]}) = 1

\* C7: beta is unchanged when the rows of the matrix are permuted and when
\* one of its rows is negated.
C7_BetaRowSymmetry ==
    InLoopBody =>
        LET A == CurrentA
            b == Beta(A, binary_vectors)
        IN  /\ \A p \in Permutations(1 .. r) :
                  Beta([i \in 1 .. r |-> A[p[i]]], binary_vectors) = b
            /\ \A k \in 1 .. r :
                  Beta([i \in 1 .. r |-> IF i = k THEN Negated(A[i]) ELSE A[i]],
                       binary_vectors) = b

C7_Witness ==
    /\ InLoopBody
    /\ n = 3
    /\ r = 3
    /\ indices = <<0, 1, 12>>
    /\ CurrentA[1] # CurrentA[2]
    /\ CurrentA[1] # Negated(CurrentA[1])
    /\ Beta(CurrentA, binary_vectors) > 0

\* C8: for n = 3 and r = 3 candidate_rows yields 25 rows and the search
\* examines 2300 combinations, the total printed.
C8_ScenarioA ==
    (n = 3 /\ r = 3) =>
        /\ RowsAssigned => Len(rows) = 25
        /\ pc \in {"loop", "body", "report", "done"} => total = Digits(2300)
        /\ LoopOver => count = 2300

C8_Witness ==
    /\ n = 3
    /\ r = 3
    /\ pc = "done"
    /\ Len(rows) = 25
    /\ total = <<0, 0, 3, 2>>
    /\ count = 2300
    /\ best_A # None

\* C(680, 4) = 8830510430, least significant digit first
TotalN4 == <<0, 3, 4, 0, 1, 5, 0, 3, 8, 8>>

C10_HalfSetRepresents ==
    /\ pc \in {"cell4", "loop", "body", "report", "done", "error"} =>
          /\ Len(binary_vectors) = Pow2(n - 1)
          /\ \A c \in [1 .. n -> {0 - 1, 1}] :
                (c \in Range(binary_vectors)) #
                    (Negated(c) \in Range(binary_vectors))
    /\ InLoopBody =>
          Beta(CurrentA, binary_vectors) = Beta(CurrentA, Vectors(n, FALSE))

C10_Witness ==
    /\ InLoopBody
    /\ n = 3
    /\ Len(binary_vectors) = 4
    /\ binary_vectors[4] = <<0 - 1, 1, 1>>
    /\ r = 3
    /\ count = 5
    /\ Beta(CurrentA, Vectors(n, FALSE)) > 0

===========================================================================
